---- MODULE Spec2Model ----
(***************************************************************************)
(* msutimer: a high-resolution timer and three benchmark reducers          *)
(* (src/msutimer.c).  The model follows the POSIX build of the library     *)
(* (MSUT_OS_POSIX, selected on unix/linux/macOS at lines 37-38): a time    *)
(* sample is a struct timeval and the frequency field is unused.           *)
(*                                                                         *)
(* A C double that holds a count of microseconds is an integer here (every *)
(* such value is an exact integer below 2^53); the value a public function *)
(* returns is a record [kind, num, den] so that the quotients, NaN and the *)
(* -DBL_MAX sentinel the code produces can be told apart.                  *)
(***************************************************************************)
EXTENDS Integers, Sequences, FiniteSets

\* ------------------------------------------------------------ bounds
\* the clock advances at most MaxTicks microseconds in one behaviour
MaxTicks == 3
\* the largest repeat count a caller passes
MaxRepeats == 4
\* how many clock reads may fail in one behaviour of SpecClockFail
MaxClockFails == 1

\* ------------------------------------------------- program constants
UsecPerSec == 1000000
MsecDivisor == 1000
EDOM == 33
ERANGE == 34
ENOMEM == 12

\* ------------------------------------------------------------ doubles
Fin(n) == [kind |-> "fin", num |-> n, den |-> 1]
NaN == [kind |-> "nan", num |-> 0, den |-> 1]
PosInf == [kind |-> "+inf", num |-> 0, den |-> 1]
NegInf == [kind |-> "-inf", num |-> 0, den |-> 1]
\* -DBL_MAX, the sentinel of the time-returning functions
NegDblMax == [kind |-> "-DBL_MAX", num |-> 0, den |-> 1]

\* IEEE-754 division of two integer-valued doubles n / d
DblDiv(n, d) ==
    IF d = 0
    THEN IF n = 0 THEN NaN ELSE IF n > 0 THEN PosInf ELSE NegInf
    ELSE IF d > 0 THEN [kind |-> "fin", num |-> n, den |-> d]
         ELSE [kind |-> "fin", num |-> -n, den |-> -d]

\* x < 0.0 as C evaluates it (false for -0.0 and for NaN)
DblNegative(x) ==
    \/ x.kind = "fin" /\ x.num < 0
    \/ x.kind \in {"-inf", "-DBL_MAX"}

\* x >= 0.0 as C evaluates it (false for NaN)
DblNonNegative(x) ==
    \/ x.kind = "fin" /\ x.num >= 0
    \/ x.kind = "+inf"

\* x == y as C evaluates it (NaN equals nothing)
DblEq(x, y) ==
    /\ x.kind # "nan"
    /\ y.kind # "nan"
    /\ x.kind = y.kind
    /\ x.kind = "fin" => x.num * y.den = y.num * x.den

\* ------------------------------------------------------- time samples
\* struct timeval { tv_sec, tv_usec }
Tv(s, u) == [tv_sec |-> s, tv_usec |-> u]
ZeroTime == Tv(0, 0)
\* the reading of the OS clock in the initial state: two microseconds
\* before a full second, so that ticks carry into tv_sec
ClockStart == Tv(1, UsecPerSec - 2)

\* what an uninitialised struct timeval may hold after a failed read
IndeterminateTime == {Tv(0, 7), Tv(3, 0)}
\* what an unwritten or out-of-bounds double may hold when it is read
IndeterminateDouble == {-5, 0, 9}

VARIABLES
    now,        \* the OS clock (gettimeofday), a timeval
    failBudget, \* number of clock reads that may still fail
    timer,      \* the caller's MSUTimer object
    errno,      \* the C error indicator
    pc,         \* position of the one thread of control
    call,       \* the public function in progress and its arguments
    loc,        \* the locals of that function
    heap,       \* the rectimes buffer of msutimer_bench_median
    slot,       \* the caller's size_t that erepeat points to
    ret,        \* the value the function returned
    cb,         \* the unit of work as the reducer sees it
    hist        \* the last two samples of the timer and gettime's last result

vars == <<now, failBudget, timer, errno, pc, call, loc, heap, slot, ret, cb, hist>>


\* ------------------------------------------------------ initial state
\* the value the caller keeps in its size_t before every reducer call
SlotPrior == MaxRepeats + 1

NoTimer == [alive |-> FALSE, freq |-> ZeroTime, t1 |-> ZeroTime, diffusecs |-> 0]
NoCall == [fn |-> "none", timer |-> FALSE, nrepeats |-> 0, callback |-> FALSE,
           userdata |-> "NULL", erepeat |-> FALSE]
NoLoc == [nrepeats |-> 0, i |-> 0, bias |-> 1, t |-> 0, t2 |-> 0, sum |-> 0]
\* data[j + 1] is rectimes[j]; written and read are sets of C indices
NoHeap == [live |-> FALSE, size |-> 0, data |-> <<>>, written |-> {},
           allocs |-> 0, frees |-> 0, failed |-> FALSE, bad |-> FALSE,
           wild |-> FALSE, read |-> {}]
\* calls: invocations so far; failedAt: the call that reported failure (0:
\* none); seen: the arguments received; before: the sample that opened the
\* interval being timed; durs: the intervals closed so far
NoCb == [calls |-> 0, failedAt |-> 0, seen |-> {}, before |-> 0, durs |-> <<>>]
NoHist == [prev |-> ZeroTime, last |-> ZeroTime, ret |-> 0, sampled |-> FALSE,
           ok |-> TRUE]

UserData == {"NULL", "ud"}
Reducers == {"bench", "average", "median"}

\* everything but the number of clock reads that may fail
InitProgram ==
    /\ now = ClockStart
    /\ timer = NoTimer
    /\ errno = 0
    /\ pc = "idle"
    /\ call = NoCall
    /\ loc = NoLoc
    /\ heap = NoHeap
    /\ slot = SlotPrior
    /\ ret = Fin(0)
    /\ cb = NoCb
    /\ hist = NoHist

\* the clock of a constructed timer can always be read
Init == InitProgram /\ failBudget = 0

\* up to MaxClockFails reads of the clock fail
InitClockFail == InitProgram /\ failBudget = MaxClockFails

\* ------------------------------------------------ the clock adapter
\* microseconds the clock has advanced since the initial state
Elapsed(t) == (t.tv_sec - ClockStart.tv_sec) * UsecPerSec
              + (t.tv_usec - ClockStart.tv_usec)

\* the OS clock advances by one microsecond
Tick ==
    /\ Elapsed(now) < MaxTicks
    /\ now' = IF now.tv_usec + 1 = UsecPerSec
              THEN Tv(now.tv_sec + 1, 0)
              ELSE Tv(now.tv_sec, now.tv_usec + 1)
    /\ UNCHANGED <<failBudget, timer, errno, pc, call, loc, heap, slot, ret, cb, hist>>

\* get_msuttime_: the results one read of the clock can give.  On success
\* *t is the clock's reading; on failure gettimeofday leaves *t as it was,
\* which for the callers' automatic variable is an indeterminate value.
get_msuttime_ ==
    {[ok |-> TRUE, t |-> now]}
    \cup (IF failBudget > 0
          THEN {[ok |-> FALSE, t |-> g] : g \in IndeterminateTime}
          ELSE {})

\* msuttime_to_usecs_ (POSIX): tv_sec * 1000000.0 + tv_usec
msuttime_to_usecs_(t) == t.tv_sec * UsecPerSec + t.tv_usec

\* a plausible slip in update_diffusecs_: the microsecond field of the
\* stored sample is left out of the subtraction
update_diffusecs_no_usec(tm, t2) ==
    (t2.tv_sec * UsecPerSec + t2.tv_usec) - (tm.t1.tv_sec * UsecPerSec)

\* update_diffusecs_ (POSIX): the value stored in timer->diffusecs
update_diffusecs_(tm, t2) ==
    (t2.tv_sec * UsecPerSec + t2.tv_usec)
    - (tm.t1.tv_sec * UsecPerSec + tm.t1.tv_usec)

\* ------------------------------------------------------------- timer
\* the body of msutimer_gettime after its NULL check, given the result r
\* of get_msuttime_ (whose return value the code does not look at)
gettime_store(tm, r) ==
    [tm EXCEPT !.diffusecs = update_diffusecs_(tm, r.t), !.t1 = r.t]

\* msutimer_gettime on a non-NULL timer, as a step of the calling action
GetTime(r) ==
    /\ timer' = gettime_store(timer, r)
    /\ hist' = [prev |-> timer.t1, last |-> r.t,
                ret |-> msuttime_to_usecs_(timer'.t1),
                sampled |-> TRUE, ok |-> r.ok]
    /\ failBudget' = IF r.ok THEN failBudget ELSE failBudget - 1

\* the arguments a caller can pass: a timer pointer is the caller's
\* object or NULL
Args(f) ==
    {[fn |-> f, timer |-> tp, nrepeats |-> n, callback |-> c, userdata |-> u,
      erepeat |-> e] :
        tp \in (IF timer.alive THEN BOOLEAN ELSE {FALSE}),
        n \in 0..MaxRepeats, c \in BOOLEAN, u \in UserData, e \in BOOLEAN}

\* the arguments of the functions that take the timer alone
TimerArg(f) ==
    {[NoCall EXCEPT !.fn = f, !.timer = tp] :
        tp \in (IF timer.alive THEN BOOLEAN ELSE {FALSE})}

\* msutimer_new
msutimer_new ==
    /\ pc = "idle"
    /\ ~timer.alive
    /\ \/ \* calloc fails; errno is whatever the C runtime leaves
          /\ errno' \in {0, ENOMEM}
          /\ UNCHANGED <<timer, hist, failBudget>>
       \/ \E r \in get_msuttime_ :
            /\ failBudget' = IF r.ok THEN failBudget ELSE failBudget - 1
            /\ IF r.ok
               THEN /\ timer' = [alive |-> TRUE, freq |-> ZeroTime, t1 |-> r.t,
                                 diffusecs |-> 0]
                    /\ hist' = [NoHist EXCEPT !.prev = r.t, !.last = r.t]
                    /\ errno' = 0
               ELSE /\ errno' = ERANGE
                    /\ UNCHANGED <<timer, hist>>
    /\ UNCHANGED <<now, pc, call, loc, heap, slot, ret, cb>>

\* msutimer_free; the caller assigns the returned NULL to its pointer
msutimer_free ==
    /\ pc = "idle"
    /\ timer' = NoTimer
    /\ hist' = NoHist
    /\ UNCHANGED <<now, failBudget, errno, pc, call, loc, heap, slot, ret, cb>>

\* msutimer_gettime
msutimer_gettime ==
    /\ pc = "idle"
    /\ \E a \in TimerArg("gettime") :
        /\ call' = a
        /\ IF ~a.timer
           THEN /\ errno' = EDOM
                /\ ret' = NegDblMax
                /\ UNCHANGED <<timer, hist, failBudget>>
           ELSE /\ errno' = 0
                /\ \E r \in get_msuttime_ :
                    /\ GetTime(r)
                    /\ ret' = Fin(hist'.ret)
    /\ pc' = "done"
    /\ UNCHANGED <<now, loc, heap, slot, cb>>

\* the scaled value a msutimer_diff_* function returns for a live timer
diff_value(f, tm) ==
    CASE f = "diff_usecs" -> Fin(tm.diffusecs)
      [] f = "diff_msecs" -> DblDiv(tm.diffusecs, MsecDivisor)
      [] f = "diff_secs" -> DblDiv(tm.diffusecs, UsecPerSec)

\* msutimer_diff_usecs, msutimer_diff_msecs, msutimer_diff_secs
msutimer_diff ==
    /\ pc = "idle"
    /\ \E f \in {"diff_usecs", "diff_msecs", "diff_secs"} :
       \E a \in TimerArg(f) :
        /\ call' = a
        /\ IF ~a.timer
           THEN /\ errno' = EDOM
                /\ ret' = NegDblMax
           ELSE /\ errno' = 0
                /\ ret' = diff_value(f, timer)
    /\ pc' = "done"
    /\ UNCHANGED <<now, failBudget, timer, loc, heap, slot, cb, hist>>

\* msutimer_accuracy_usecs up to the head of its for(;;) loop
msutimer_accuracy_usecs ==
    /\ pc = "idle"
    /\ \E a \in TimerArg("accuracy") :
        /\ call' = a
        /\ errno' = 0
        /\ IF ~a.timer
           THEN /\ ret' = NegDblMax
                /\ pc' = "done"
                /\ UNCHANGED <<timer, hist, failBudget, loc>>
           ELSE \E r \in get_msuttime_ :
                    /\ GetTime(r)
                    /\ loc' = [NoLoc EXCEPT !.t = hist'.ret, !.t2 = hist'.ret]
                    /\ pc' = "acc_spin"
                    /\ UNCHANGED ret
    /\ UNCHANGED <<now, heap, slot, cb>>

\* a spin that also stops on a sample equal to the first one
spin_done_on_equal(t2, t1) == t2 >= t1

\* the test that ends the for(;;) loop of msutimer_accuracy_usecs
spin_done(t2, t1) == t2 > t1

\* one pass of the for(;;) loop of msutimer_accuracy_usecs
accuracy_spin ==
    /\ pc = "acc_spin"
    /\ \E r \in get_msuttime_ :
        /\ GetTime(r)
        /\ errno' = 0
        /\ loc' = [loc EXCEPT !.t2 = hist'.ret]
        /\ IF spin_done(hist'.ret, loc.t)
           THEN /\ ret' = Fin(hist'.ret - loc.t)
                /\ pc' = "done"
           ELSE /\ pc' = "acc_spin"
                /\ UNCHANGED ret
    /\ UNCHANGED <<now, call, heap, slot, cb>>

\* the public function returns to its caller, which re-arms its slot
Return ==
    /\ pc = "done"
    /\ pc' = "idle"
    /\ call' = NoCall
    /\ loc' = NoLoc
    /\ heap' = NoHeap
    /\ cb' = NoCb
    /\ ret' = Fin(0)
    /\ slot' = SlotPrior
    /\ UNCHANGED <<now, failBudget, timer, errno, hist>>


\* ------------------------------------------- the benchmark reducers
\* a reducer forgetting the nrepeats == 0 check
invalid_args_no_zero_check(a) == ~a.timer \/ ~a.callback

\* the three argument checks every reducer starts with
invalid_args(a) == ~a.timer \/ ~a.callback \/ a.nrepeats = 0

\* a loop that runs one iteration too many
for_cond_off_by_one(i, nrepeats) == i <= nrepeats

\* the condition of the reducers' for loop
for_cond(i, nrepeats) == i < nrepeats

\* where control goes when the loop condition is evaluated
LoopPc(i, nrepeats, body, exit) == IF for_cond(i, nrepeats) THEN body ELSE exit

\* the argument the reducers hand to the callback
callback_arg(a) == a.userdata

\* callback( userdata ) is called and reports ok
Invoked(ok) ==
    [cb EXCEPT !.calls = cb.calls + 1,
               !.failedAt = IF ok THEN cb.failedAt ELSE cb.calls + 1,
               !.seen = cb.seen \cup {callback_arg(call)}]

\* *erepeat = v, when erepeat is not NULL
StoreErepeat(v) == slot' = IF call.erepeat THEN v ELSE slot

\* bias * x for the double x
DblScale(bias, x) == IF x.kind = "fin" THEN [x EXCEPT !.num = bias * x.num] ELSE x

\* msutimer_bench up to the head of its loop
msutimer_bench ==
    /\ pc = "idle"
    /\ \E a \in Args("bench") :
        /\ call' = a
        /\ IF invalid_args(a)
           THEN /\ errno' = EDOM
                /\ ret' = Fin(0)
                /\ pc' = "done"
                /\ UNCHANGED <<timer, hist, failBudget, loc, slot, cb>>
           ELSE /\ slot' = IF a.erepeat THEN 0 ELSE slot
                /\ errno' = 0
                /\ \E r \in get_msuttime_ :
                    /\ GetTime(r)
                    /\ loc' = [NoLoc EXCEPT !.nrepeats = a.nrepeats,
                                            !.t = hist'.ret]
                    /\ cb' = [cb EXCEPT !.before = hist'.ret]
                /\ pc' = LoopPc(0, a.nrepeats, "bench_loop", "bench_exit")
                /\ UNCHANGED ret
    /\ UNCHANGED <<now, heap>>

\* one iteration of the loop of msutimer_bench
bench_loop ==
    /\ pc = "bench_loop"
    /\ \E ok \in BOOLEAN :
        /\ cb' = Invoked(ok)
        /\ IF ok
           THEN /\ loc' = [loc EXCEPT !.i = loc.i + 1]
                /\ pc' = LoopPc(loc.i + 1, loc.nrepeats, "bench_loop", "bench_exit")
                /\ UNCHANGED slot
           ELSE /\ StoreErepeat(loc.i)
                /\ loc' = [loc EXCEPT !.bias = -1]
                /\ pc' = "bench_exit"
    /\ UNCHANGED <<now, failBudget, timer, errno, call, heap, ret, hist>>

\* the return statement of msutimer_bench
bench_exit ==
    /\ pc = "bench_exit"
    /\ \E r \in get_msuttime_ :
        /\ GetTime(r)
        /\ errno' = 0
        /\ ret' = Fin(loc.bias * (hist'.ret - loc.t))
        /\ cb' = [cb EXCEPT !.durs = Append(cb.durs, hist'.ret - cb.before)]
    /\ pc' = "done"
    /\ UNCHANGED <<now, call, loc, heap, slot>>

\* msutimer_bench_average up to the head of its loop
msutimer_bench_average ==
    /\ pc = "idle"
    /\ \E a \in Args("average") :
        /\ call' = a
        /\ IF invalid_args(a)
           THEN /\ errno' = EDOM
                /\ ret' = Fin(0)
                /\ pc' = "done"
                /\ UNCHANGED loc
           ELSE /\ errno' = 0
                /\ loc' = [NoLoc EXCEPT !.nrepeats = a.nrepeats]
                /\ pc' = LoopPc(0, a.nrepeats, "avg_iter", "avg_exit")
                /\ UNCHANGED ret
    /\ UNCHANGED <<now, failBudget, timer, heap, slot, cb, hist>>

\* an iteration of msutimer_bench_average: the first sample and the callback
avg_iter ==
    /\ pc = "avg_iter"
    /\ \E r \in get_msuttime_ :
        /\ GetTime(r)
        /\ errno' = 0
        /\ \E ok \in BOOLEAN :
            /\ cb' = [Invoked(ok) EXCEPT !.before = hist'.ret]
            /\ IF ok
               THEN /\ loc' = [loc EXCEPT !.t = hist'.ret]
                    /\ pc' = "avg_time"
                    /\ UNCHANGED slot
               ELSE /\ StoreErepeat(loc.i)
                    /\ loc' = [loc EXCEPT !.t = hist'.ret, !.bias = -1,
                                          !.nrepeats = loc.i]
                    /\ pc' = "avg_exit"
    /\ UNCHANGED <<now, call, heap, ret>>

\* the rest of an iteration of msutimer_bench_average: the second sample
avg_time ==
    /\ pc = "avg_time"
    /\ \E r \in get_msuttime_ :
        /\ GetTime(r)
        /\ errno' = 0
        /\ loc' = [loc EXCEPT !.t = hist'.ret - loc.t,
                              !.sum = loc.sum + (hist'.ret - loc.t),
                              !.i = loc.i + 1]
        /\ cb' = [cb EXCEPT !.durs = Append(cb.durs, hist'.ret - cb.before)]
    /\ pc' = LoopPc(loc.i + 1, loc.nrepeats, "avg_iter", "avg_exit")
    /\ UNCHANGED <<now, call, heap, slot, ret>>

\* the value msutimer_bench_average returns: bias * sum / nrepeats
average_value(l) == DblDiv(l.bias * l.sum, l.nrepeats)

\* the return statement of msutimer_bench_average
avg_exit ==
    /\ pc = "avg_exit"
    /\ ret' = average_value(loc)
    /\ pc' = "done"
    /\ UNCHANGED <<now, failBudget, timer, errno, call, loc, heap, slot, cb, hist>>


\* ------------------------------------------------- the median reducer
\* malloc( nrepeats * sizeof(double) ) succeeds: nrepeats unwritten doubles
malloc_(h, nrepeats) ==
    [h EXCEPT !.live = TRUE, !.size = nrepeats,
              !.data = [j \in 1..nrepeats |-> 0], !.written = {},
              !.allocs = h.allocs + 1]

\* a return path that forgets free( rectimes )
free_forgotten(h) == h

\* free( rectimes )
free_(h) ==
    [h EXCEPT !.live = FALSE, !.frees = h.frees + 1,
              !.bad = h.bad \/ ~h.live]

\* rectimes[j] = v
store_(h, j, v) ==
    IF h.live /\ j < h.size
    THEN [h EXCEPT !.data[j + 1] = v, !.written = h.written \cup {j}]
    ELSE [h EXCEPT !.bad = h.bad \/ ~h.live, !.wild = TRUE]

\* the values a read of rectimes[j] can give: the stored value, or any
\* value when the element is unwritten or lies outside the buffer
load_(h, j) ==
    IF h.live /\ j < h.size /\ j \in h.written
    THEN {h.data[j + 1]}
    ELSE IndeterminateDouble

\* compare_doubles_for_qsort_
compare_doubles_for_qsort_(a, b) ==
    (IF a > b THEN 1 ELSE 0) - (IF a < b THEN 1 ELSE 0)

\* s with v inserted before the first element that compares greater
RECURSIVE Insert(_, _)
Insert(s, v) ==
    IF s = <<>> THEN <<v>>
    ELSE IF compare_doubles_for_qsort_(v, Head(s)) <= 0
         THEN <<v>> \o s
         ELSE <<Head(s)>> \o Insert(Tail(s), v)

\* the sequence s in the order the comparison function defines
RECURSIVE SortDoubles(_)
SortDoubles(s) == IF s = <<>> THEN <<>> ELSE Insert(SortDoubles(Tail(s)), Head(s))

\* qsort( rectimes, n, sizeof(double), compare_doubles_for_qsort_ ):
\* the first n elements are put in order, the rest are left alone
qsort(h, n) ==
    IF n = 0 THEN h
    ELSE [h EXCEPT !.data = SortDoubles(SubSeq(h.data, 1, n))
                            \o SubSeq(h.data, n + 1, h.size)]

\* the indices of rectimes the selection reads for a count of n
median_reads(n) ==
    {n \div 2} \cup (IF n % 2 = 0 THEN {1 + n \div 2} ELSE {})

\* the values ret can have after the selection among n sorted elements
median_value(h, n) ==
    IF n % 2 = 0
    THEN {DblDiv(a + b, 2) : a \in load_(h, n \div 2), b \in load_(h, 1 + n \div 2)}
    ELSE {Fin(a) : a \in load_(h, n \div 2)}

\* msutimer_bench_median up to the head of its loop
msutimer_bench_median ==
    /\ pc = "idle"
    /\ \E a \in Args("median") :
        /\ call' = a
        /\ IF invalid_args(a)
           THEN /\ errno' = EDOM
                /\ ret' = Fin(0)
                /\ pc' = "done"
                /\ UNCHANGED <<loc, heap>>
           ELSE \/ \* malloc returns NULL; the C runtime may set errno
                   /\ errno' \in {0, ENOMEM}
                   /\ heap' = [heap EXCEPT !.failed = TRUE]
                   /\ ret' = Fin(0)
                   /\ pc' = "done"
                   /\ UNCHANGED loc
                \/ /\ errno' = 0
                   /\ heap' = malloc_(heap, a.nrepeats)
                   /\ loc' = [NoLoc EXCEPT !.nrepeats = a.nrepeats]
                   /\ pc' = LoopPc(0, a.nrepeats, "med_iter", "med_exit")
                   /\ UNCHANGED ret
    /\ UNCHANGED <<now, failBudget, timer, slot, cb, hist>>

\* an iteration of msutimer_bench_median: the first sample and the callback
med_iter ==
    /\ pc = "med_iter"
    /\ \E r \in get_msuttime_ :
        /\ GetTime(r)
        /\ errno' = 0
        /\ \E ok \in BOOLEAN :
            /\ cb' = [Invoked(ok) EXCEPT !.before = hist'.ret]
            /\ IF ok
               THEN /\ loc' = [loc EXCEPT !.t = hist'.ret]
                    /\ pc' = "med_time"
                    /\ UNCHANGED slot
               ELSE /\ StoreErepeat(loc.i)
                    /\ loc' = [loc EXCEPT !.t = hist'.ret, !.bias = -1,
                                          !.nrepeats = loc.i]
                    /\ pc' = "med_exit"
    /\ UNCHANGED <<now, call, heap, ret>>

\* the rest of an iteration of msutimer_bench_median: the second sample
\* is recorded
med_time ==
    /\ pc = "med_time"
    /\ \E r \in get_msuttime_ :
        /\ GetTime(r)
        /\ errno' = 0
        /\ heap' = store_(heap, loc.i, hist'.ret - loc.t)
        /\ loc' = [loc EXCEPT !.i = loc.i + 1]
        /\ cb' = [cb EXCEPT !.durs = Append(cb.durs, hist'.ret - cb.before)]
    /\ pc' = LoopPc(loc.i + 1, loc.nrepeats, "med_iter", "med_exit")
    /\ UNCHANGED <<now, call, slot, ret>>

\* the sort, the selection, the free and the return of msutimer_bench_median
med_exit ==
    /\ pc = "med_exit"
    /\ \E v \in median_value(qsort(heap, loc.nrepeats), loc.nrepeats) :
        /\ ret' = DblScale(loc.bias, v)
        /\ heap' = free_([qsort(heap, loc.nrepeats) EXCEPT
                            !.read = median_reads(loc.nrepeats),
                            !.bad = heap.bad \/ ~heap.live])
    /\ pc' = "done"
    /\ UNCHANGED <<now, failBudget, timer, errno, call, loc, slot, cb, hist>>

\* ------------------------------------------------------ specification
Next ==
    \/ Tick
    \/ msutimer_new
    \/ msutimer_free
    \/ msutimer_gettime
    \/ msutimer_diff
    \/ msutimer_accuracy_usecs
    \/ accuracy_spin
    \/ msutimer_bench
    \/ bench_loop
    \/ bench_exit
    \/ msutimer_bench_average
    \/ avg_iter
    \/ avg_time
    \/ avg_exit
    \/ msutimer_bench_median
    \/ med_iter
    \/ med_time
    \/ med_exit
    \/ Return

Spec == Init /\ [][Next]_vars

\* the same program on a platform whose clock reads can fail
SpecClockFail == InitClockFail /\ [][Next]_vars

\* Spec with a clock that advances while it can and a spin loop that, being
\* the only code the one thread runs, takes its next pass
SpecFair == Spec /\ WF_vars(Tick) /\ WF_vars(accuracy_spin)


\* ------------------------------------------------------------ claims
\* a reducer has returned
ReducerDone == pc = "done" /\ call.fn \in Reducers

\* the reducer was given a timer, a callback and a repeat count of at least 1
ArgsValid == call.timer /\ call.callback /\ call.nrepeats >= 1

\* the sum of the sequence s
RECURSIVE SumSeq(_)
SumSeq(s) == IF s = <<>> THEN 0 ELSE Head(s) + SumSeq(Tail(s))

\* the element at C index j of s put in ascending order (j < Len(s))
AscendingAt(s, j) ==
    CHOOSE v \in {s[x] : x \in DOMAIN s} :
        /\ Cardinality({x \in DOMAIN s : s[x] < v}) <= j
        /\ Cardinality({x \in DOMAIN s : s[x] <= v}) > j

\* C1: when the unit of work fails on its k-th call (1 <= k <= n), every
\* reducer returns a value that is strictly less than zero and, when an
\* output slot is supplied, leaves k - 1 in it.
C1_FailureIsNegative ==
    (ReducerDone /\ ArgsValid /\ cb.failedAt # 0) =>
        /\ DblNegative(ret)
        /\ call.erepeat => slot = cb.failedAt - 1

\* C2: a reducer called without a timer, without a callable or with n = 0
\* returns 0 with errno = EDOM at once: the unit of work is not invoked, the
\* clock is not read, the timer keeps its sample and its delta, and the
\* output slot and the heap are not touched.
C2_InvalidArgsRejected ==
    [][(/\ pc = "idle"
        /\ call'.fn \in Reducers
        /\ (~call'.timer \/ ~call'.callback \/ call'.nrepeats = 0))
       => (/\ pc' = "done"
           /\ ret' = Fin(0)
           /\ errno' = EDOM
           /\ cb'.calls = 0
           /\ timer' = timer
           /\ hist' = hist
           /\ failBudget' = failBudget
           /\ slot' = slot
           /\ heap' = heap)]_vars

\* C2 witness: the median reducer has rejected n = 0 though the timer and
\* the callable were supplied
C2_Witness ==
    /\ pc = "done"
    /\ call.fn = "median"
    /\ call.timer /\ call.callback /\ call.erepeat
    /\ call.nrepeats = 0
    /\ errno = EDOM
    /\ hist.sampled

\* C3: a reducer invokes the unit of work once per iteration, never more
\* than n times and never after a call that reported failure: a run whose
\* k-th call fails has made k calls, a run without failure returns after n
\* calls, and every call receives the caller's user data.
C3_CallCounts ==
    call.fn \in Reducers =>
        /\ cb.calls <= call.nrepeats
        /\ cb.failedAt # 0 => cb.calls = cb.failedAt
        /\ cb.seen \subseteq {call.userdata}
        /\ cb.calls > 0 => cb.seen = {call.userdata}
        /\ (cb.failedAt = 0 /\ pc \in {"bench_loop", "avg_iter", "med_iter"})
              => cb.calls = loc.i
        /\ (cb.failedAt = 0 /\ pc \in {"avg_time", "med_time"})
              => cb.calls = loc.i + 1
        /\ (pc = "done" /\ ArgsValid /\ ~heap.failed /\ cb.failedAt = 0)
              => cb.calls = call.nrepeats

\* C3 witness: the median reducer, asked for 4 iterations, has returned
\* after the third call failed
C3_Witness ==
    /\ pc = "done"
    /\ call.fn = "median"
    /\ call.nrepeats = 4
    /\ call.userdata = "ud"
    /\ cb.failedAt = 3
    /\ cb.calls = 3

\* C4: once msutimer_gettime has run on a timer, the stored delta is the
\* microsecond value of the stored sample minus that of the sample stored
\* before it (the construction sample for the first call), and the value
\* msutimer_gettime returned is the microsecond value of the stored sample.
C4_DeltaIsLastInterval ==
    /\ (timer.alive /\ hist.sampled) =>
        /\ timer.t1 = hist.last
        /\ timer.diffusecs =
              (hist.last.tv_sec * UsecPerSec + hist.last.tv_usec)
              - (hist.prev.tv_sec * UsecPerSec + hist.prev.tv_usec)
        /\ hist.ret = hist.last.tv_sec * UsecPerSec + hist.last.tv_usec
    /\ (timer.alive /\ ~hist.sampled) => hist.prev = timer.t1
    /\ (pc = "done" /\ call.fn = "gettime" /\ call.timer) => ret = Fin(hist.ret)

\* C4 witness: inside msutimer_accuracy_usecs the timer has just stored a
\* sample taken in a later second than the one before it
C4_Witness ==
    /\ timer.alive
    /\ hist.sampled
    /\ hist.ok
    /\ call.fn = "accuracy"
    /\ hist.prev.tv_sec < timer.t1.tv_sec
    /\ timer.diffusecs = 2

\* C5: after n successful iterations msutimer_bench_median returns, for
\* odd n, the middle value of the durations in ascending order and, for
\* even n, the average of the elements at indices n/2 and n/2 + 1 of that
\* ascending sequence, both of which the sequence has.
C5_MedianOfAllSuccess ==
    (/\ pc = "done"
     /\ call.fn = "median"
     /\ ArgsValid
     /\ ~heap.failed
     /\ cb.failedAt = 0) =>
        LET n == call.nrepeats
            d == cb.durs
        IN  /\ Len(d) = n
            /\ IF n % 2 = 1
               THEN ret = Fin(AscendingAt(d, n \div 2))
               ELSE /\ 1 + n \div 2 < n
                    /\ DblEq(ret, DblDiv(AscendingAt(d, n \div 2)
                                         + AscendingAt(d, 1 + n \div 2), 2))

\* C6: with n = 1 every reducer returns the interval between the sample
\* taken before the one invocation and the last sample of the call, with
\* the sign of the outcome: the same function of the clock readings and of
\* the unit of work for all three.
C6_SingleRunAgree ==
    (ReducerDone /\ ArgsValid /\ ~heap.failed /\ call.nrepeats = 1) =>
        ret = Fin((IF cb.failedAt = 0 THEN 1 ELSE -1) * (hist.ret - cb.before))

\* C7: msutimer_bench_average returns the sum of the timed durations
\* divided by the number of iterations executed (n, or the number completed
\* before the failure), which is never zero; the result is non-negative on
\* full success and negative on failure.
C7_AverageOfExecuted ==
    (pc = "done" /\ call.fn = "average" /\ ArgsValid) =>
        LET count == IF cb.failedAt = 0 THEN call.nrepeats ELSE cb.failedAt - 1
            sign == IF cb.failedAt = 0 THEN 1 ELSE -1
        IN  /\ count # 0
            /\ loc.nrepeats = count
            /\ DblEq(ret, DblDiv(sign * SumSeq(cb.durs), count))
            /\ cb.failedAt = 0 => DblNonNegative(ret)
            /\ cb.failedAt # 0 => DblNegative(ret)

\* C8: msutimer_bench_median allocates at most one buffer, of the n slots
\* requested; the buffer is never freed twice and never used after it is
\* freed, and no buffer is allocated once the call has returned, whatever
\* the exit path.
C8_BufferReleased ==
    /\ heap.allocs <= 1
    /\ heap.frees <= heap.allocs
    /\ ~heap.bad
    /\ heap.live =>
        /\ call.fn = "median"
        /\ pc \in {"med_iter", "med_time", "med_exit"}
        /\ heap.size = call.nrepeats
        /\ heap.frees = 0
    /\ pc \in {"done", "idle"} =>
        /\ ~heap.live
        /\ heap.frees = heap.allocs
    /\ (pc = "done" /\ call.fn = "median" /\ ArgsValid /\ ~heap.failed)
          => heap.allocs = 1

\* C8 witness: the median reducer has returned after the unit of work
\* failed on its second call, with its one buffer freed once
C8_Witness ==
    /\ pc = "done"
    /\ call.fn = "median"
    /\ cb.failedAt = 2
    /\ heap.allocs = 1
    /\ heap.frees = 1
    /\ heap.size = call.nrepeats
    /\ ~heap.live

\* C9: msutimer_gettime, msutimer_diff_usecs, msutimer_diff_msecs,
\* msutimer_diff_secs and msutimer_accuracy_usecs called with a NULL timer
\* return -DBL_MAX and leave errno = EDOM.
C9_AbsentTimerSentinel ==
    (/\ pc = "done"
     /\ call.fn \in {"gettime", "diff_usecs", "diff_msecs", "diff_secs", "accuracy"}
     /\ ~call.timer) =>
        /\ ret = NegDblMax
        /\ errno = EDOM

\* C10: when malloc fails msutimer_bench_median returns 0 with errno not
\* zero, without invoking the unit of work and without writing the output
\* slot.
C10_AllocFailureReported ==
    (pc = "done" /\ call.fn = "median" /\ heap.failed) =>
        /\ ret = Fin(0)
        /\ errno # 0
        /\ cb.calls = 0
        /\ slot = SlotPrior


\* C11: msutimer_accuracy_usecs on a constructed timer leaves its spin only
\* with a sample strictly larger than the first sample of the spin, when the
\* clock has moved past that first sample, and returns their difference,
\* which is strictly positive; once the clock is past the first sample, or
\* while it can still advance, the spin ends.
C11_AccuracySpin ==
    /\ [][(pc = "acc_spin" /\ pc' = "done") =>
            /\ hist'.ret > loc.t
            /\ now.tv_sec * UsecPerSec + now.tv_usec > loc.t
            /\ ret' = Fin(hist'.ret - loc.t)]_vars
    /\ [][(pc = "acc_spin" /\ now.tv_sec * UsecPerSec + now.tv_usec <= loc.t)
            => pc' = "acc_spin"]_vars
    /\ []((pc = "done" /\ call.fn = "accuracy" /\ call.timer)
            => (ret.kind = "fin" /\ ret.num > 0 /\ ret.den = 1))
    /\ ((pc = "acc_spin" /\ now.tv_sec * UsecPerSec + now.tv_usec > loc.t)
            ~> pc = "done")
    /\ ((pc = "acc_spin" /\ Elapsed(now) < MaxTicks) ~> pc = "done")

\* C11 witness: msutimer_accuracy_usecs has returned one microsecond after a
\* spin that saw the first sample again before the clock moved
C11_Witness ==
    /\ pc = "done"
    /\ call.fn = "accuracy"
    /\ call.timer
    /\ ret = Fin(1)
    /\ loc.t2 = loc.t + 1
    /\ timer.diffusecs = 1


\* C12: whatever the outcome of the unit of work, every element of rectimes
\* that msutimer_bench_median reads to select the median lies inside the n
\* allocated slots and was written during the call.
C12_MedianReadsValid ==
    (pc = "done" /\ call.fn = "median" /\ ArgsValid /\ ~heap.failed) =>
        \A j \in heap.read : j < heap.size /\ j \in heap.written

\* C13: the sample msutimer_gettime has stored in the timer, and used for
\* the delta and for its result, is one that the clock read reported as
\* obtained.
C13_OnlyGoodSamples ==
    (timer.alive /\ hist.sampled) => hist.ok

\* C14: when all n iterations succeed the output slot holds the value it
\* held before the call, in each of the three reducers.
C14_SlotOnlyOnFailure ==
    (ReducerDone /\ ArgsValid /\ ~heap.failed /\ cb.failedAt = 0) =>
        slot = SlotPrior

====
